---- MODULE Spec2Model ----
(***************************************************************************)
(* Model of the pyannote-api-toolkit record store (the file_infos          *)
(* collection with its $jsonSchema validator and unique filename index),   *)
(* of the web client's form handlers, and of the three range queries.      *)
(*                                                                         *)
(* A document is a function from the names of the fields it holds to their *)
(* values, so an optional field that is absent is absent from DOMAIN doc.  *)
(* A bsonType "double" is held as an integer number of thousandths         *)
(* (0.5 is 500), a bsonType "int" as an integer.                           *)
(***************************************************************************)
EXTENDS Integers, Sequences, FiniteSets, TLC

VARIABLES
    file_infos,           \* the file_infos collection, in insertion order
    audio_storage,        \* filenames held by audio_storage.files
    jobs,                 \* per filename, the diarization jobs submitted and
                          \* not yet delivered by the engine
    numberOfDocuments,    \* client cache (part_001:83)
    registeredFilenames,  \* client cache (part_001:84)
    options,              \* the option values of each dropdown list
    resp,                 \* outcome of the last request or handler
    tables,               \* the rows of each result table of the page
    pending               \* requests sent and not yet answered

vars == <<file_infos, audio_storage, jobs, numberOfDocuments,
          registeredFilenames, options, resp, tables, pending>>

-----------------------------------------------------------------------------
(* Bounds *)

MaxJobs == 1
MaxLen == 3
MaxRefreshes == 2

Filenames == {"a", "b"}
ScoreVals == {10, 50, 90}

-----------------------------------------------------------------------------
(* Doubles, sequences *)

ToDouble(n) == n * 1000

Range(s) == {s[i] : i \in 1..Len(s)}

RECURSIVE SeqSum(_)
SeqSum(s) == IF s = <<>> THEN 0 ELSE Head(s) + SeqSum(Tail(s))

SeqsUpTo(S, n) == UNION {[1..k -> S] : k \in 0..n}

Has(doc, field) == field \in DOMAIN doc

-----------------------------------------------------------------------------
(* The collection validator of file_infos *)

\* nb_speakers left out of the required fields
required_noSpeakers == {"storage_type", "filename", "gridfs_id"}

required == {"storage_type", "filename", "gridfs_id", "nb_speakers"}

ValidSegment(seg) ==
    /\ {"start", "end", "speaker", "confidence"} \subseteq DOMAIN seg
    /\ seg.start >= ToDouble(0)
    /\ seg.end >= ToDouble(0)

ValidSampleLevelConfidences(c) ==
    /\ {"score", "resolution"} \subseteq DOMAIN c
    /\ \A i \in 1..Len(c.score) : c.score[i] >= 0 /\ c.score[i] <= 100
    /\ c.resolution >= ToDouble(0)

\* the maximum of human_score left out
ValidHumanScore_noMaximum(n) == n >= 0

ValidHumanScore(n) == n >= 0 /\ n <= 100

\* the maximum of nb_speakers off by one
ValidNbSpeakers_upTo101(n) == n >= 1 /\ n <= 101

ValidNbSpeakers(n) == n >= 1 /\ n <= 100

Validates(doc) ==
    /\ required \subseteq DOMAIN doc
    /\ Has(doc, "human_score") => ValidHumanScore(doc.human_score)
    /\ Has(doc, "sample_level_system_score") =>
          /\ doc.sample_level_system_score >= ToDouble(0)
          /\ doc.sample_level_system_score <= ToDouble(100)
    /\ Has(doc, "diarization_result") =>
          \A i \in 1..Len(doc.diarization_result) :
              ValidSegment(doc.diarization_result[i])
    /\ Has(doc, "storage_type") => doc.storage_type \in {"PyAnnote"}
    /\ Has(doc, "nb_speakers") => ValidNbSpeakers(doc.nb_speakers)
    /\ Has(doc, "sample_level_confidences") =>
          ValidSampleLevelConfidences(doc.sample_level_confidences)

-----------------------------------------------------------------------------
(* The document store: insertion order, unique index on filename *)

\* a collection without the unique index
DuplicateKey_noIndex(coll, filename) == FALSE

DuplicateKey(coll, filename) ==
    \E i \in 1..Len(coll) : coll[i].filename = filename

InsertStatus(coll, doc) ==
    IF ~Validates(doc) THEN "ValidationError"
    ELSE IF Has(doc, "filename") /\ DuplicateKey(coll, doc.filename)
         THEN "DuplicateKey"
         ELSE "ok"

\* position of the first document named filename, 0 when there is none
FindOne(coll, filename) ==
    IF \E i \in 1..Len(coll) : coll[i].filename = filename
    THEN CHOOSE i \in 1..Len(coll) :
             /\ coll[i].filename = filename
             /\ \A j \in 1..(i - 1) : coll[j].filename # filename
    ELSE 0

\* $set of the given fields on one document
SetFields(doc, fields) == fields @@ doc

UpdateStatus(coll, filename, fields) ==
    IF FindOne(coll, filename) = 0 THEN "NotFound"
    ELSE IF ~Validates(SetFields(coll[FindOne(coll, filename)], fields))
         THEN "ValidationError"
         ELSE "ok"

\* an update that inserts the fields as a new document when none is found
UpdateOne_upsert(coll, filename, fields) ==
    IF FindOne(coll, filename) = 0
    THEN Append(coll, SetFields([filename |-> filename], fields))
    ELSE IF UpdateStatus(coll, filename, fields) = "ok"
         THEN [coll EXCEPT ![FindOne(coll, filename)] = SetFields(@, fields)]
         ELSE coll

\* an update that stops after the first of its fields
UpdateOne_halfApplied(coll, filename, fields) ==
    IF UpdateStatus(coll, filename, fields) = "ok"
    THEN LET k == CHOOSE k \in DOMAIN fields : TRUE
         IN  [coll EXCEPT ![FindOne(coll, filename)] =
                 SetFields(@, [x \in {k} |-> fields[x]])]
    ELSE coll

UpdateOne(coll, filename, fields) ==
    IF UpdateStatus(coll, filename, fields) = "ok"
    THEN [coll EXCEPT ![FindOne(coll, filename)] = SetFields(@, fields)]
    ELSE coll

DeleteOne(coll, filename) ==
    IF FindOne(coll, filename) = 0 THEN coll
    ELSE [i \in 1..(Len(coll) - 1) |->
             IF i < FindOne(coll, filename) THEN coll[i] ELSE coll[i + 1]]

FilenamesOf(coll) == [i \in 1..Len(coll) |-> coll[i].filename]

Exists(filename) == FindOne(file_infos, filename) # 0

-----------------------------------------------------------------------------
(* Form values: text fields hold strings, the server reads numbers from them *)

IntOf(str) ==
    CASE str = "-1" -> 0 - 1
      [] str = "0" -> 0
      [] str = "1" -> 1
      [] str = "2" -> 2
      [] str = "50" -> 50
      [] str = "99" -> 99
      [] str = "100" -> 100
      [] str = "101" -> 101

Trim(str) == IF str = " " THEN "" ELSE str

ObjectId(filename) == <<"oid", filename>>

FileId(n) == <<"file-", n>>

\* the engine's job reference is opaque; one token per recording stands for it
JobId(filename) == <<"job", filename>>

-----------------------------------------------------------------------------
(* Server requests.  Each yields a status and the stores after the request *)

NewDocument(filename, storage_type, file_id, nb_speakers) ==
    [storage_type |-> storage_type, filename |-> filename,
     gridfs_id |-> ObjectId(filename), file_id |-> file_id,
     nb_speakers |-> IntOf(nb_speakers)]

\* the audio bytes are registered first (gridfs_id is a required field of the
\* document), then the document is inserted; a rejected creation stores nothing
UploadStatus(filename, storage_type, file_id, nb_speakers) ==
    IF DuplicateKey(audio_storage, filename) THEN "DuplicateKey"
    ELSE InsertStatus(file_infos,
                      NewDocument(filename, storage_type, file_id, nb_speakers))

Respond(op, filename, args, status, result) ==
    [op |-> op, filename |-> filename, args |-> args, status |-> status,
     result |-> result]

NotSent(op) == Respond(op, "", <<>>, "not_sent", <<>>)

-----------------------------------------------------------------------------
(* Client: the cached filename index and the dropdown lists *)

listIds == <<"filenameLists", "filenameSVG", "filenameDiarisation",
             "filenameListening", "filenameDeletion", "filenameSample",
             "filenameTurn">>

\* every list starts with its placeholder option, whose value is empty
NoOptions == [id \in Range(listIds) |-> <<"">>]

tableIds == {"tabMeanThreshold", "tabSampleThreshold", "tabTurnThreshold"}

\* the body of every table is empty when the page is loaded
NoRows == [id \in tableIds |-> <<>>]

\* one row per item, one cell per column; a column the item lacks shows nothing
fillTable(data, columns) ==
    [i \in 1..Len(data) |->
        [k \in 1..Len(columns) |->
            IF columns[k] \in DOMAIN data[i] THEN data[i][columns[k]] ELSE ""]]

\* every registered filename appended, already an option or not
updateFilenamesFields_appendAll(opts, filenames) == opts \o filenames

\* appends the registered filenames that are not yet an option after the
\* placeholder
updateFilenamesFields(opts, filenames) ==
    LET existingValues == Range(Tail(opts))
        keep(v) == v \notin existingValues
    IN  opts \o SelectSeq(filenames, keep)

refreshData(opts, filenames) ==
    [id \in DOMAIN opts |-> updateFilenamesFields(opts[id], filenames)]

RemoveAt(seq, i) ==
    [k \in 1..(Len(seq) - 1) |-> IF k < i THEN seq[k] ELSE seq[k + 1]]

\* removes the first option whose value is valeur; both log lines then read
\* the undeclared name `value`, so the call always ends in a ReferenceError
deleteOptionByValue(opts, valeur) ==
    LET found == {i \in 1..Len(opts) : opts[i] = valeur}
        first == CHOOSE i \in found : \A j \in found : i <= j
    IN  [opts |-> IF found = {} THEN opts ELSE RemoveAt(opts, first),
         threw |-> TRUE]

RECURSIVE cleanFrom(_, _, _)
cleanFrom(lists, k, valeur) ==
    IF k > Len(listIds) THEN lists
    ELSE LET r == deleteOptionByValue(lists[listIds[k]], valeur)
             after == [lists EXCEPT ![listIds[k]] = r.opts]
         IN  IF r.threw THEN after ELSE cleanFrom(after, k + 1, valeur)

\* the try block of cleanData: the loop stops at the first exception
cleanData(lists, valeur) == cleanFrom(lists, 1, valeur)

-----------------------------------------------------------------------------
(* Inputs of the lifecycle handlers *)

NbSpeakersInputs == {"", "0", "1"}
AllNbSpeakersInputs == {"", "-1", "0", "1", "2", "50", "99", "100", "101"}
AudioInputs == {"none", "wav", "mp3"}
FilenameInputs == Filenames \cup {"", " "}
StorageInputs == {"", "PyAnnote"}
AllStorageInputs == {"", "PyAnnote", "S3"}

\* a form that passes every check of the handler
Complete(nb, audio, f, st) ==
    nb # "" /\ audio = "wav" /\ Trim(f) # "" /\ st # ""

\* the complete forms, and for each check one form that fails it
UploadForms(nbInputs, storageInputs) ==
    {form \in nbInputs \X AudioInputs \X FilenameInputs \X storageInputs :
        \/ Complete(form[1], form[2], form[3], form[4])
        \/ form \in {<<"", "wav", "a", "PyAnnote">>,
                     <<"1", "none", "a", "PyAnnote">>,
                     <<"1", "mp3", "a", "PyAnnote">>,
                     <<"1", "wav", "", "PyAnnote">>,
                     <<"1", "wav", " ", "PyAnnote">>,
                     <<"1", "wav", "a", "">>}}

HumanScoreInputs == {"", "50", "101"}

Segment(start, end, speaker, score) ==
    [start |-> start, end |-> end, speaker |-> speaker,
     confidence |-> [s \in {speaker} |-> score]]

EngineResult(segments, scores, resolution, mean) ==
    [segments |-> segments,
     confidences |-> [score |-> scores, resolution |-> resolution],
     mean |-> mean]

\* what the external engine may deliver: a usual result, and one the validator
\* rejects
EngineResults ==
    {EngineResult(<<Segment(0, 1000, "A", 90), Segment(1000, 1500, "B", 10)>>,
                  <<10, 90, 50>>, 500, ToDouble(50)),
     EngineResult(<<Segment(0, 1000, "A", 90)>>, <<101>>, 500, ToDouble(101))}

ResultFields(r) ==
    [diarization_result |-> r.segments,
     sample_level_confidences |-> r.confidences,
     sample_level_system_score |-> r.mean]

-----------------------------------------------------------------------------
(* Lifecycle handlers *)

RECURSIVE SumOver(_, _)
SumOver(f, S) ==
    IF S = {} THEN 0
    ELSE LET x == CHOOSE x \in S : TRUE IN f[x] + SumOver(f, S \ {x})

InFlight == SumOver(jobs, Filenames)

Init ==
    /\ file_infos = <<>>
    /\ audio_storage = <<>>
    /\ jobs = [f \in Filenames |-> 0]
    /\ numberOfDocuments = 0
    /\ registeredFilenames = <<>>
    /\ options = NoOptions
    /\ resp = Respond("init", "", <<>>, "ok", <<>>)
    /\ tables = NoRows
    /\ pending = <<>>

uploadFormSubmit(nbSpeakers, audioFile, filenameInput, storageType) ==
    LET filename == Trim(filenameInput)
        fileId == FileId(numberOfDocuments + 1)
        status == UploadStatus(filename, storageType, fileId, nbSpeakers)
        stored == Append(file_infos,
                         NewDocument(filename, storageType, fileId, nbSpeakers))
    IN  IF \/ nbSpeakers = ""
           \/ audioFile # "wav"
           \/ filename = ""
           \/ storageType = ""
        THEN /\ resp' = NotSent("upload")
             /\ UNCHANGED <<file_infos, audio_storage, jobs,
                            numberOfDocuments, registeredFilenames, options>>
        ELSE /\ resp' = Respond("upload", filename,
                                <<nbSpeakers, storageType>>, status, <<>>)
             /\ UNCHANGED jobs
             /\ IF status = "ok"
                THEN /\ file_infos' = stored
                     /\ audio_storage' =
                            Append(audio_storage,
                                   [filename |-> filename,
                                    gridfs_id |-> ObjectId(filename)])
                     /\ numberOfDocuments' = Len(stored)
                     /\ registeredFilenames' = FilenamesOf(stored)
                     /\ options' = refreshData(options, FilenamesOf(stored))
                ELSE UNCHANGED <<file_infos, audio_storage, numberOfDocuments,
                                 registeredFilenames, options>>

diarisationFormSubmit(filename) ==
    IF filename = ""
    THEN /\ resp' = NotSent("diarise")
         /\ UNCHANGED <<file_infos, audio_storage, jobs,
                        numberOfDocuments, registeredFilenames, options>>
    ELSE IF ~Exists(filename)
    THEN /\ resp' = Respond("diarise", filename, <<>>, "NotFound", <<>>)
         /\ UNCHANGED <<file_infos, audio_storage, jobs,
                        numberOfDocuments, registeredFilenames, options>>
    ELSE /\ InFlight < MaxJobs
         /\ jobs' = [jobs EXCEPT ![filename] = @ + 1]
         /\ file_infos' = UpdateOne(file_infos, filename,
                                    [job_id |-> JobId(filename)])
         /\ resp' = Respond("diarise", filename, <<>>, "ok", <<>>)
         /\ UNCHANGED <<audio_storage, numberOfDocuments, registeredFilenames,
                        options>>

\* the webhook: the engine delivers the result of one submitted job
onResult(filename, r) ==
    /\ jobs[filename] > 0
    /\ jobs' = [jobs EXCEPT ![filename] = @ - 1]
    /\ file_infos' = UpdateOne(file_infos, filename, ResultFields(r))
    /\ resp' = Respond("onResult", filename, <<>>,
                       UpdateStatus(file_infos, filename, ResultFields(r)),
                       <<>>)
    /\ UNCHANGED <<audio_storage, numberOfDocuments,
                   registeredFilenames, options>>

integerFormSubmit(filename, integer) ==
    IF filename = "" \/ integer = ""
    THEN /\ resp' = NotSent("update_human_score")
         /\ UNCHANGED <<file_infos, audio_storage, jobs,
                        numberOfDocuments, registeredFilenames, options>>
    ELSE /\ file_infos' = UpdateOne(file_infos, filename,
                                    [human_score |-> IntOf(integer)])
         /\ resp' = Respond("update_human_score", filename, <<integer>>,
                            UpdateStatus(file_infos, filename,
                                         [human_score |-> IntOf(integer)]),
                            <<>>)
         /\ UNCHANGED <<audio_storage, jobs, numberOfDocuments,
                        registeredFilenames, options>>

deletionFormSubmit(filename) ==
    IF filename = ""
    THEN /\ resp' = NotSent("delete")
         /\ UNCHANGED <<file_infos, audio_storage, jobs,
                        numberOfDocuments, registeredFilenames, options>>
    ELSE IF ~Exists(filename)
    THEN /\ resp' = Respond("delete", filename, <<>>, "NotFound", <<>>)
         /\ UNCHANGED <<file_infos, audio_storage, jobs,
                        numberOfDocuments, registeredFilenames, options>>
    ELSE /\ file_infos' = DeleteOne(file_infos, filename)
         /\ audio_storage' = DeleteOne(audio_storage, filename)
         /\ options' = cleanData(options, filename)
         /\ resp' = Respond("delete", filename, <<>>, "ok", <<>>)
         /\ UNCHANGED <<jobs, numberOfDocuments, registeredFilenames>>

\* loading the page runs the script again: fresh module state, then refreshData
pageLoad ==
    /\ tables' = NoRows
    /\ pending' = <<>>
    /\ numberOfDocuments' = Len(file_infos)
    /\ registeredFilenames' = FilenamesOf(file_infos)
    /\ options' = refreshData(NoOptions, FilenamesOf(file_infos))
    /\ resp' = Respond("load", "", <<>>, "ok", <<>>)
    /\ UNCHANGED <<file_infos, audio_storage, jobs>>

LifecycleForms == UploadForms(NbSpeakersInputs, StorageInputs)

-----------------------------------------------------------------------------
(* The three range queries of the server *)

MeanProjection(doc) ==
    [filename |-> doc.filename, human_score |-> doc.human_score,
     sample_level_system_score |-> doc.sample_level_system_score]

\* a range predicate on a field matches no document that lacks the field
MeanMatches(doc, q) ==
    /\ Has(doc, "human_score")
    /\ Has(doc, "sample_level_system_score")
    /\ doc.human_score >= q.human_score_min
    /\ doc.human_score <= q.human_score_max
    /\ doc.sample_level_system_score >= ToDouble(q.sample_score_min)
    /\ doc.sample_level_system_score <= ToDouble(q.sample_score_max)

RECURSIVE MeanScan(_, _)
MeanScan(coll, q) ==
    IF coll = <<>> THEN <<>>
    ELSE IF MeanMatches(Head(coll), q)
         THEN <<MeanProjection(Head(coll))>> \o MeanScan(Tail(coll), q)
         ELSE MeanScan(Tail(coll), q)

get_filenames_by_mean_scores(q) ==
    [status |-> "ok", result |-> MeanScan(file_infos, q)]

\* samples k+1 .. Len(scores) of the sequence; sample k+1 covers the time
\* from k * resolution to (k+1) * resolution
RECURSIVE SampleScan(_, _, _, _)
SampleScan(scores, resolution, k, q) ==
    IF k >= Len(scores) THEN <<>>
    ELSE IF scores[k + 1] >= q.min_score /\ scores[k + 1] <= q.max_score
         THEN <<[confidence |-> scores[k + 1], start |-> k * resolution,
                 end |-> (k + 1) * resolution]>>
              \o SampleScan(scores, resolution, k + 1, q)
         ELSE SampleScan(scores, resolution, k + 1, q)

\* a request that fails when the record has no sample_level_confidences yet
get_sample_level_confidences_by_filename_strict(q) ==
    IF ~Exists(q.filename) THEN [status |-> "NotFound", result |-> <<>>]
    ELSE LET doc == file_infos[FindOne(file_infos, q.filename)]
         IN  IF Has(doc, "sample_level_confidences")
             THEN [status |-> "ok",
                   result |->
                      SampleScan(doc.sample_level_confidences.score,
                                 doc.sample_level_confidences.resolution, 0, q)]
             ELSE [status |-> "Error", result |-> <<>>]

get_sample_level_confidences_by_filename(q) ==
    IF ~Exists(q.filename) THEN [status |-> "NotFound", result |-> <<>>]
    ELSE LET doc == file_infos[FindOne(file_infos, q.filename)]
         IN  [status |-> "ok",
              result |->
                 IF Has(doc, "sample_level_confidences")
                 THEN SampleScan(doc.sample_level_confidences.score,
                                 doc.sample_level_confidences.resolution, 0, q)
                 ELSE <<>>]

\* the sub-score of a segment is the confidence given to its own speaker
SpeakerConfidence(seg) == seg.confidence[seg.speaker]

TurnProjection(seg) ==
    [start |-> seg.start, end |-> seg.end, speaker |-> seg.speaker,
     speaker_confidence |-> SpeakerConfidence(seg)]

RECURSIVE TurnScan(_, _)
TurnScan(segments, q) ==
    IF segments = <<>> THEN <<>>
    ELSE IF /\ SpeakerConfidence(Head(segments)) >= q.min_score
            /\ SpeakerConfidence(Head(segments)) <= q.max_score
         THEN <<TurnProjection(Head(segments))>> \o TurnScan(Tail(segments), q)
         ELSE TurnScan(Tail(segments), q)

get_turn_level_confidences_by_filename(q) ==
    IF ~Exists(q.filename) THEN [status |-> "NotFound", result |-> <<>>]
    ELSE LET doc == file_infos[FindOne(file_infos, q.filename)]
         IN  [status |-> "ok",
              result |->
                 IF Has(doc, "diarization_result")
                 THEN TurnScan(doc.diarization_result, q)
                 ELSE <<>>]

-----------------------------------------------------------------------------
(* Query handlers of the client, and the same requests sent by any caller *)

\* the sample bounds sent in place of the human ones, and the reverse
meanUrl_crossed(minValueHuman, maxValueHuman, minValueSample, maxValueSample) ==
    [human_score_min |-> minValueSample, human_score_max |-> maxValueSample,
     sample_score_min |-> minValueHuman, sample_score_max |-> maxValueHuman]

meanUrl(minValueHuman, maxValueHuman, minValueSample, maxValueSample) ==
    [human_score_min |-> minValueHuman, human_score_max |-> maxValueHuman,
     sample_score_min |-> minValueSample, sample_score_max |-> maxValueSample]

\* the upper bound sent as min_score as well
sampleUrl_upperTwice(minValueFrame, maxValueFrame, filename) ==
    [min_score |-> maxValueFrame, max_score |-> maxValueFrame,
     filename |-> filename]

sampleUrl(minValueFrame, maxValueFrame, filename) ==
    [min_score |-> minValueFrame, max_score |-> maxValueFrame,
     filename |-> filename]

\* the lower bound sent as max_score as well
turnUrl_lowerTwice(minValueTurn, maxValueTurn, filename) ==
    [min_score |-> minValueTurn, max_score |-> minValueTurn,
     filename |-> filename]

turnUrl(minValueTurn, maxValueTurn, filename) ==
    [min_score |-> minValueTurn, max_score |-> maxValueTurn,
     filename |-> filename]

Unchanged == UNCHANGED <<file_infos, audio_storage, jobs, numberOfDocuments,
                         registeredFilenames, options>>

selectMeanFormSubmit(minH, maxH, minS, maxS) ==
    /\ Unchanged
    /\ IF minH >= maxH \/ minS >= maxS
       THEN resp' = NotSent("mean")
       ELSE LET r == get_filenames_by_mean_scores(meanUrl(minH, maxH, minS, maxS))
            IN  resp' = Respond("mean", "", <<minH, maxH, minS, maxS>>,
                                r.status, r.result)

selectSampleLevelFormSubmit(minValueFrame, maxValueFrame, filenameInput) ==
    /\ Unchanged
    /\ IF minValueFrame >= maxValueFrame \/ Trim(filenameInput) = ""
       THEN resp' = NotSent("sample")
       ELSE LET r == get_sample_level_confidences_by_filename(
                         sampleUrl(minValueFrame, maxValueFrame,
                                   Trim(filenameInput)))
            IN  resp' = Respond("sample", Trim(filenameInput),
                                <<minValueFrame, maxValueFrame>>,
                                r.status, r.result)

\* the handler without its check of the bounds
selectTurnLevelFormSubmit_noCheck(minValueTurn, maxValueTurn, filenameInput) ==
    /\ Unchanged
    /\ IF Trim(filenameInput) = ""
       THEN resp' = NotSent("turn")
       ELSE LET r == get_turn_level_confidences_by_filename(
                         turnUrl(minValueTurn, maxValueTurn,
                                 Trim(filenameInput)))
            IN  resp' = Respond("turn", Trim(filenameInput),
                                <<minValueTurn, maxValueTurn>>,
                                r.status, r.result)

selectTurnLevelFormSubmit(minValueTurn, maxValueTurn, filenameInput) ==
    /\ Unchanged
    /\ IF minValueTurn >= maxValueTurn \/ Trim(filenameInput) = ""
       THEN resp' = NotSent("turn")
       ELSE LET r == get_turn_level_confidences_by_filename(
                         turnUrl(minValueTurn, maxValueTurn,
                                 Trim(filenameInput)))
            IN  resp' = Respond("turn", Trim(filenameInput),
                                <<minValueTurn, maxValueTurn>>,
                                r.status, r.result)

\* the requests as any caller of the server may send them
meanRequest(h0, h1, s0, s1) ==
    /\ Unchanged
    /\ LET r == get_filenames_by_mean_scores(
                    [human_score_min |-> h0, human_score_max |-> h1,
                     sample_score_min |-> s0, sample_score_max |-> s1])
       IN  resp' = Respond("mean", "", <<h0, h1, s0, s1>>, r.status, r.result)

sampleRequest(lo, hi, filename) ==
    /\ Unchanged
    /\ LET r == get_sample_level_confidences_by_filename(
                    [min_score |-> lo, max_score |-> hi, filename |-> filename])
       IN  resp' = Respond("sample", filename, <<lo, hi>>, r.status, r.result)

turnRequest(lo, hi, filename) ==
    /\ Unchanged
    /\ LET r == get_turn_level_confidences_by_filename(
                    [min_score |-> lo, max_score |-> hi, filename |-> filename])
       IN  resp' = Respond("turn", filename, <<lo, hi>>, r.status, r.result)

\* In the specifications below every response is back before the next event
\* of the page, and the result tables are not followed: RefreshSpec follows
\* the requests in flight, FormSpec the tables.
Settled == UNCHANGED <<tables, pending>>

Upload ==
    /\ Settled
    /\ \E form \in LifecycleForms :
           uploadFormSubmit(form[1], form[2], form[3], form[4])

Diarise ==
    /\ Settled
    /\ \E f \in Range(options["filenameDiarisation"]) :
           diarisationFormSubmit(f)

Webhook ==
    /\ Settled
    /\ \E f \in Filenames, r \in EngineResults : onResult(f, r)

HumanScore ==
    /\ Settled
    /\ \E f \in Range(options["filenameLists"]), n \in HumanScoreInputs :
           integerFormSubmit(f, n)

Delete ==
    /\ Settled
    /\ \E f \in Range(options["filenameDeletion"]) : deletionFormSubmit(f)

\* positions of a pair of sliders tried in the lifecycle specification
SliderPairs == {<<10, 90>>, <<90, 10>>}

MeanQuery(pairs) ==
    /\ Settled
    /\ \E human \in pairs, sample \in pairs :
           selectMeanFormSubmit(human[1], human[2], sample[1], sample[2])

SampleQuery(pairs) ==
    /\ Settled
    /\ \E frame \in pairs, f \in Range(options["filenameSample"]) :
           selectSampleLevelFormSubmit(frame[1], frame[2], f)

TurnQuery(pairs) ==
    /\ Settled
    /\ \E turn \in pairs, f \in Range(options["filenameTurn"]) :
           selectTurnLevelFormSubmit(turn[1], turn[2], f)

Next ==
    \/ Upload
    \/ Diarise
    \/ Webhook
    \/ HumanScore
    \/ Delete
    \/ pageLoad
    \/ SampleQuery(SliderPairs)
    \/ TurnQuery(SliderPairs)

Spec == Init /\ [][Next]_vars

-----------------------------------------------------------------------------
(* Creation and deletion alone, with every number of speakers tried *)

CreateForms == UploadForms(AllNbSpeakersInputs, AllStorageInputs)

UploadAny ==
    /\ Settled
    /\ \E form \in CreateForms :
           uploadFormSubmit(form[1], form[2], form[3], form[4])

CreateNext ==
    \/ UploadAny
    \/ Delete
    \/ pageLoad

CreateSpec == Init /\ [][CreateNext]_vars

-----------------------------------------------------------------------------
(* The queries over stores drawn from bounded sets *)

NoFields == [x \in {} |-> 0]

HumanChoices == {NoFields} \cup {[human_score |-> v] : v \in ScoreVals}

\* one segment per score, one second each, speakers alternating
SegmentsOf(scores) ==
    [k \in 1..Len(scores) |->
        Segment(ToDouble(k - 1), ToDouble(k),
                IF k % 2 = 1 THEN "A" ELSE "B", scores[k])]

MeanOf(scores) ==
    IF scores = <<>> THEN 0 ELSE (ToDouble(SeqSum(scores))) \div Len(scores)

Resolutions == {250, 500}

\* results with every score sequence up to MaxLen
WindowChoices ==
    {NoFields} \cup
    {ResultFields(EngineResult(SegmentsOf(sc), sc, res, MeanOf(sc))) :
        sc \in SeqsUpTo(ScoreVals, MaxLen), res \in Resolutions}

MeanVals == {ToDouble(10), ToDouble(50), ToDouble(50) + 500}

\* results that differ in the mean score the engine supplied
MeanChoices ==
    {NoFields} \cup
    {ResultFields(EngineResult(SegmentsOf(<<50>>), <<50>>, 500, m)) :
        m \in MeanVals}

StoredDocument(filename, n, human, result) ==
    SetFields(SetFields(NewDocument(filename, "PyAnnote", FileId(n), "1"),
                        human), result)

StoreOf(docs) ==
    [i \in 1..Len(docs) |-> StoredDocument(docs[i][1], i, docs[i][2], docs[i][3])]

\* the second record of a store is scored 50 or not, diarized with mean 50
\* or not
MeanStores ==
    {StoreOf(docs) :
        docs \in {<<>>}
               \cup {<<<<"a", ha, ra>>>> : ha \in HumanChoices, ra \in MeanChoices}
               \cup {<<<<"a", ha, ra>>, <<"b", hb, rb>>>> :
                        ha \in HumanChoices, ra \in MeanChoices,
                        hb \in {NoFields, [human_score |-> 50]},
                        rb \in {NoFields,
                                ResultFields(EngineResult(SegmentsOf(<<50>>),
                                             <<50>>, 500, ToDouble(50)))}}}

WindowStores ==
    {StoreOf(docs) :
        docs \in {<<<<"b", NoFields, NoFields>>, <<"a", NoFields, ra>>>> :
                    ra \in WindowChoices}}

QueryInit ==
    /\ file_infos \in MeanStores \cup WindowStores
    /\ audio_storage = [i \in 1..Len(file_infos) |->
                           [filename |-> file_infos[i].filename,
                            gridfs_id |-> file_infos[i].gridfs_id]]
    /\ jobs = [f \in Filenames |-> 0]
    /\ numberOfDocuments = Len(file_infos)
    /\ registeredFilenames = FilenamesOf(file_infos)
    /\ options = [id \in Range(listIds) |->
                     IF id = "filenameLists"
                     THEN <<"">> \o FilenamesOf(file_infos)
                     ELSE <<"", "a", "b">>]
    /\ resp = Respond("init", "", <<>>, "ok", <<>>)
    /\ tables = NoRows
    /\ pending = <<>>

MeanRequest ==
    /\ Settled
    /\ \E h0 \in ScoreVals, h1 \in ScoreVals, s0 \in ScoreVals,
          s1 \in ScoreVals :
           meanRequest(h0, h1, s0, s1)

SampleRequest ==
    /\ Settled
    /\ \E lo \in ScoreVals, hi \in ScoreVals, f \in Filenames :
           sampleRequest(lo, hi, f)

TurnRequest ==
    /\ Settled
    /\ \E lo \in ScoreVals, hi \in ScoreVals, f \in Filenames :
           turnRequest(lo, hi, f)

QueryNext ==
    \/ MeanQuery(ScoreVals \X ScoreVals)
    \/ SampleQuery(ScoreVals \X ScoreVals)
    \/ TurnQuery(ScoreVals \X ScoreVals)
    \/ MeanRequest
    \/ SampleRequest
    \/ TurnRequest

QuerySpec == QueryInit /\ [][QueryNext]_vars

-----------------------------------------------------------------------------
(* Two writes sent to the server at the same time.  The server hands each to
   the store as one single-document operation; the store runs them one at a
   time, in either order. *)

WriteStore ==
    StoreOf(<<<<"a", NoFields, NoFields>>,
              <<"b", [human_score |-> 10], NoFields>>>>)

WriteResults ==
    EngineResults \cup
    {EngineResult(SegmentsOf(<<50>>), <<50>>, 250, ToDouble(50))}

SetRequest(filename, fields) ==
    [kind |-> "set", filename |-> filename, fields |-> fields]

DeleteRequest(filename) ==
    [kind |-> "delete", filename |-> filename, fields |-> NoFields]

WriteRequests ==
    UNION {{SetRequest(f, ResultFields(r)) : r \in WriteResults}
           \cup {SetRequest(f, [human_score |-> IntOf(n)]) : n \in {"50", "101"}}
           \cup {SetRequest(f, [job_id |-> JobId(f)])}
           \cup {DeleteRequest(f)} : f \in Filenames}

WriteInit ==
    /\ file_infos = WriteStore
    /\ audio_storage = [i \in 1..Len(file_infos) |->
                           [filename |-> file_infos[i].filename,
                            gridfs_id |-> file_infos[i].gridfs_id]]
    /\ jobs = [f \in Filenames |-> 0]
    /\ numberOfDocuments = Len(file_infos)
    /\ registeredFilenames = FilenamesOf(file_infos)
    /\ options = refreshData(NoOptions, FilenamesOf(file_infos))
    /\ resp = Respond("init", "", <<>>, "ok", <<>>)
    /\ tables = NoRows
    /\ pending = <<>>

\* a caller sends a write while at most one other is in flight
sendWrite(w) ==
    /\ Len(pending) < 2
    /\ pending' = Append(pending, [write |-> w, status |-> "sent"])
    /\ UNCHANGED <<file_infos, audio_storage, jobs, numberOfDocuments,
                   registeredFilenames, options, resp, tables>>

\* the store runs the i-th write
applyWrite(i) ==
    LET w == pending[i].write
        status == IF w.kind = "delete"
                  THEN IF Exists(w.filename) THEN "ok" ELSE "NotFound"
                  ELSE UpdateStatus(file_infos, w.filename, w.fields)
    IN  /\ pending[i].status = "sent"
        /\ file_infos' = IF w.kind = "delete"
                         THEN DeleteOne(file_infos, w.filename)
                         ELSE UpdateOne(file_infos, w.filename, w.fields)
        /\ audio_storage' = IF w.kind = "delete"
                            THEN DeleteOne(audio_storage, w.filename)
                            ELSE audio_storage
        /\ pending' = [pending EXCEPT ![i].status = status]
        /\ resp' = Respond("write", w.filename, <<i>>, status, <<>>)
        /\ UNCHANGED <<jobs, numberOfDocuments, registeredFilenames, options,
                       tables>>

SendWrite == \E w \in WriteRequests : sendWrite(w)

ApplyWrite == \E i \in 1..Len(pending) : applyWrite(i)

WriteNext ==
    \/ SendWrite
    \/ ApplyWrite

WriteSpec == WriteInit /\ [][WriteNext]_vars

-----------------------------------------------------------------------------
(* Writes as they reach the collection: creations with any of the fields left
   out, result attachments with any sample-level confidences *)

Restrict(doc, fields) == [k \in fields \cap DOMAIN doc |-> doc[k]]

\* the four required fields and file_id, and every document that lacks some
\* of them
CreationDocs ==
    {Restrict(NewDocument(f, "PyAnnote", FileId(1), "1"), S) :
        f \in Filenames, S \in SUBSET (required \cup {"file_id"})}
    \cup {[NewDocument("a", "PyAnnote", FileId(1), "1") EXCEPT
              !.nb_speakers = 0]}

SchemaResults ==
    {EngineResult(SegmentsOf(<<50>>), sc, res, ToDouble(50)) :
        sc \in {<<0, 100>>, <<101>>, <<0 - 1>>},
        res \in {0 - 500, 0, 500}}

\* a creation: the audio bytes are stored under the filename of the record
createRecord(doc) ==
    LET status == InsertStatus(file_infos, doc)
    IN  /\ resp' = Respond("create",
                           IF Has(doc, "filename") THEN doc.filename ELSE "",
                           <<doc>>, status, <<>>)
        /\ IF status = "ok"
           THEN /\ file_infos' = Append(file_infos, doc)
                /\ audio_storage' =
                       Append(audio_storage,
                              [filename |-> doc.filename,
                               gridfs_id |-> doc.gridfs_id])
           ELSE UNCHANGED <<file_infos, audio_storage>>
        /\ UNCHANGED <<jobs, numberOfDocuments, registeredFilenames, options,
                       tables, pending>>

\* a result attachment sent to the webhook by any caller
attachResult(filename, r) ==
    /\ file_infos' = UpdateOne(file_infos, filename, ResultFields(r))
    /\ resp' = Respond("attach", filename, <<r.confidences>>,
                       UpdateStatus(file_infos, filename, ResultFields(r)),
                       <<>>)
    /\ UNCHANGED <<audio_storage, jobs, numberOfDocuments,
                   registeredFilenames, options, tables, pending>>

CreateRecord == \E doc \in CreationDocs : createRecord(doc)

AttachResult == \E f \in Filenames, r \in SchemaResults : attachResult(f, r)

SchemaNext ==
    \/ CreateRecord
    \/ AttachResult

SchemaSpec == Init /\ [][SchemaNext]_vars

-----------------------------------------------------------------------------
(* Properties of the validator, under SchemaSpec *)

\* C12: a creation whose document lacks storage_type, filename, gridfs_id or
\* nb_speakers is rejected with ValidationError and stores nothing; a creation
\* with exactly these four fields, valid values and an unused filename
\* succeeds and stores the document as given, no optional field present.
C12_RequiredAtCreation ==
    [][resp'.op = "create" =>
         LET doc == resp'.args[1]
             four == {"storage_type", "filename", "gridfs_id", "nb_speakers"}
         IN  /\ ~(four \subseteq DOMAIN doc) =>
                   /\ resp'.status = "ValidationError"
                   /\ file_infos' = file_infos
                   /\ audio_storage' = audio_storage
             /\ (/\ DOMAIN doc = four
                 /\ doc.storage_type = "PyAnnote"
                 /\ doc.nb_speakers \in 1..100
                 /\ FindOne(file_infos, doc.filename) = 0) =>
                   /\ resp'.status = "ok"
                   /\ file_infos' = Append(file_infos, doc)]_vars

\* a record made of the four required fields alone is stored, and the last
\* creation, which had everything but nb_speakers, was rejected
C12_Witness ==
    /\ resp.op = "create"
    /\ resp.status = "ValidationError"
    /\ DOMAIN resp.args[1] = {"storage_type", "filename", "gridfs_id", "file_id"}
    /\ \E d \in Range(file_infos) :
          DOMAIN d = {"storage_type", "filename", "gridfs_id", "nb_speakers"}
    /\ FindOne(file_infos, resp.filename) = 0

\* C13: in every record that has sample_level_confidences the resolution is
\* strictly positive and every score is in [0,100], and a result attachment
\* with a resolution of 0 or less, or a score outside [0,100], is rejected
\* with ValidationError.
C13_PositiveResolution ==
    /\ \A d \in Range(file_infos) :
          Has(d, "sample_level_confidences") =>
              /\ d.sample_level_confidences.resolution > 0
              /\ \A i \in 1..Len(d.sample_level_confidences.score) :
                    d.sample_level_confidences.score[i] \in 0..100
    /\ (/\ resp.op = "attach"
        /\ FindOne(file_infos, resp.filename) # 0
        /\ \/ resp.args[1].resolution <= 0
           \/ \E i \in 1..Len(resp.args[1].score) :
                 resp.args[1].score[i] \notin 0..100)
       => resp.status = "ValidationError"

-----------------------------------------------------------------------------
(* Properties of concurrent writes, under WriteSpec *)

RecordOrNone(coll, filename) ==
    IF FindOne(coll, filename) = 0 THEN NoFields
    ELSE coll[FindOne(coll, filename)]

\* the record a write leaves when it runs alone on the record doc
After(doc, w) ==
    IF doc = NoFields \/ w.kind = "delete" THEN NoFields
    ELSE IF Validates(w.fields @@ doc) THEN w.fields @@ doc
    ELSE doc

BothApplied ==
    /\ Len(pending) = 2
    /\ pending[1].status # "sent"
    /\ pending[2].status # "sent"

\* C11: once two concurrent writes have both run, every record is what the
\* writes aimed at it leave when they run one after the other: a record no
\* write names is untouched, a record one write names is what that write alone
\* leaves, whatever the other write did, and a record both name is the result
\* of one of the two serial orders, never a mix of half-applied fields.
C11_LastWriteWins ==
    BothApplied =>
        \A f \in Filenames :
            LET w1 == pending[1].write
                w2 == pending[2].write
                start == RecordOrNone(WriteStore, f)
                final == RecordOrNone(file_infos, f)
            IN  IF w1.filename = f /\ w2.filename = f
                THEN final \in {After(After(start, w1), w2),
                                After(After(start, w2), w1)}
                ELSE IF w1.filename = f THEN final = After(start, w1)
                ELSE IF w2.filename = f THEN final = After(start, w2)
                ELSE final = start

\* two result attachments raced on one record and the one sent first ran
\* last: the record holds its three fields and none of the other's
C11_Witness ==
    /\ BothApplied
    /\ resp.args = <<1>>
    /\ pending[1].write.filename = pending[2].write.filename
    /\ pending[1].status = "ok"
    /\ pending[2].status = "ok"
    /\ Has(pending[1].write.fields, "diarization_result")
    /\ Has(pending[2].write.fields, "diarization_result")
    /\ pending[1].write.fields # pending[2].write.fields
    /\ \A k \in DOMAIN pending[1].write.fields :
          RecordOrNone(file_infos, resp.filename)[k]
              = pending[1].write.fields[k]

-----------------------------------------------------------------------------
(* The page with its refreshData calls in flight.  A call sends the requests
   of getNumberOfDocuments and getAllFilenames together; the server answers
   each from the store as it is at that moment; each answer, when it reaches
   the page, is assigned to the module variable; the call that has both
   answers runs updateFilenamesFields on the seven lists. *)

Fetch == [state |-> "sent", ok |-> TRUE, value |-> <<>>]

\* a refreshData call; upload names the file whose upload called it, "" for
\* the call made when the script is loaded
RefreshCall(upload) ==
    [upload |-> upload, nb |-> Fetch, names |-> Fetch, done |-> FALSE]

\* a call that has returned: nothing of it is in flight any more
Returned ==
    [upload |-> "", nb |-> [Fetch EXCEPT !.state = "received"],
     names |-> [Fetch EXCEPT !.state = "received"], done |-> TRUE]

AllDone(p) == \A i \in 1..Len(p) : p[i].done

\* calls that have all returned are forgotten when a new one starts
startRefresh(p, upload) ==
    IF AllDone(p) THEN <<RefreshCall(upload)>>
    ELSE Append(p, RefreshCall(upload))

RefreshInit ==
    /\ file_infos = <<>>
    /\ audio_storage = <<>>
    /\ jobs = [f \in Filenames |-> 0]
    /\ numberOfDocuments = 0
    /\ registeredFilenames = <<>>
    /\ options = NoOptions
    /\ resp = Respond("load", "", <<>>, "ok", <<>>)
    /\ tables = NoRows
    /\ pending = <<RefreshCall("")>>

\* the script runs again on a fresh page; answers to the requests of the page
\* that was left are dropped
loadPage ==
    /\ numberOfDocuments' = 0
    /\ registeredFilenames' = <<>>
    /\ options' = NoOptions
    /\ tables' = NoRows
    /\ pending' = <<RefreshCall("")>>
    /\ resp' = Respond("load", "", <<>>, "ok", <<>>)
    /\ UNCHANGED <<file_infos, audio_storage, jobs>>

\* the upload handler up to its call of refreshData, which stays in flight
uploadFormSubmitInFlight(nbSpeakers, audioFile, filenameInput, storageType) ==
    LET filename == Trim(filenameInput)
        fileId == FileId(numberOfDocuments + 1)
        status == UploadStatus(filename, storageType, fileId, nbSpeakers)
    IN  /\ UNCHANGED <<jobs, numberOfDocuments, registeredFilenames, options,
                       tables>>
        /\ IF \/ nbSpeakers = ""
              \/ audioFile # "wav"
              \/ filename = ""
              \/ storageType = ""
           THEN /\ resp' = NotSent("upload")
                /\ UNCHANGED <<file_infos, audio_storage, pending>>
           ELSE /\ resp' = Respond("upload", filename,
                                   <<nbSpeakers, storageType>>, status, <<>>)
                /\ IF status = "ok"
                   THEN /\ AllDone(pending) \/ Len(pending) < MaxRefreshes
                        /\ file_infos' =
                               Append(file_infos,
                                      NewDocument(filename, storageType,
                                                  fileId, nbSpeakers))
                        /\ audio_storage' =
                               Append(audio_storage,
                                      [filename |-> filename,
                                       gridfs_id |-> ObjectId(filename)])
                        /\ pending' = startRefresh(pending, filename)
                   ELSE UNCHANGED <<file_infos, audio_storage, pending>>

\* the server answers one request of the i-th call from the store as it is,
\* or the request fails
answerFetch(i, which, ok) ==
    LET value == IF ~ok THEN <<>>
                 ELSE IF which = "nb" THEN Len(file_infos)
                 ELSE FilenamesOf(file_infos)
    IN  /\ pending[i][which].state = "sent"
        /\ pending' = [pending EXCEPT ![i][which] =
                          [state |-> "answered", ok |-> ok, value |-> value]]
        /\ resp' = Respond(which, "", <<>>, IF ok THEN "ok" ELSE "failed",
                           value)
        /\ UNCHANGED <<file_infos, audio_storage, jobs, numberOfDocuments,
                       registeredFilenames, options, tables>>

\* an answer reaches the page: it is assigned when it is ok, and the call that
\* now has both answers updates the lists from registeredFilenames and returns
receiveFetch(i, which) ==
    LET fetch == pending[i][which]
        other == IF which = "nb" THEN "names" ELSE "nb"
        completes == pending[i][other].state = "received"
    IN  /\ fetch.state = "answered"
        /\ numberOfDocuments' = IF which = "nb" /\ fetch.ok THEN fetch.value
                                ELSE numberOfDocuments
        /\ registeredFilenames' = IF which = "names" /\ fetch.ok
                                  THEN fetch.value
                                  ELSE registeredFilenames
        /\ options' = IF completes
                      THEN refreshData(options, registeredFilenames')
                      ELSE options
        /\ pending' = IF completes THEN [pending EXCEPT ![i] = Returned]
                      ELSE IF which = "nb"
                      THEN [pending EXCEPT ![i].nb = Returned.nb]
                      ELSE [pending EXCEPT ![i].names.state = "received"]
        /\ UNCHANGED <<file_infos, audio_storage, jobs, resp, tables>>

RefreshForms == UploadForms({"", "1"}, StorageInputs)

UploadInFlight ==
    \E form \in RefreshForms :
        uploadFormSubmitInFlight(form[1], form[2], form[3], form[4])

AnswerFetch ==
    \E i \in 1..Len(pending), which \in {"nb", "names"}, ok \in BOOLEAN :
        answerFetch(i, which, ok)

ReceiveFetch ==
    \E i \in 1..Len(pending), which \in {"nb", "names"} :
        receiveFetch(i, which)

RefreshNext ==
    \/ loadPage
    \/ UploadInFlight
    \/ AnswerFetch
    \/ ReceiveFetch

RefreshSpec == RefreshInit /\ [][RefreshNext]_vars

-----------------------------------------------------------------------------
(* Properties of the refreshes, under RefreshSpec and CreateSpec *)

StoredFilenames == Range(FilenamesOf(file_infos))

\* the filenames the i-th call fetched, when its fetch was answered ok
FetchedBy(i) ==
    IF pending[i].names.ok /\ pending[i].names.state # "sent"
    THEN Range(pending[i].names.value)
    ELSE {}

\* C15: when the refreshData call of a successful upload returns after a
\* successful fetch of the filenames, each of the seven lists has an option
\* for every filename it fetched that is registered in the store, the
\* uploaded one included.
C15_ListsHoldEveryFilename ==
    [][\A i \in 1..Len(pending) :
         (/\ Len(pending') = Len(pending)
          /\ pending[i].upload # ""
          /\ ~pending[i].done
          /\ pending'[i].done)
         => \A f \in FetchedBy(i) \cap StoredFilenames' :
                \A k \in 1..Len(listIds) :
                    f \in Range(options'[listIds[k]])]_vars

\* C17: once every refreshData call in flight has returned, the cached
\* registeredFilenames and numberOfDocuments are the values of the answer the
\* server gave last.
C17_CacheHoldsLatestAnswer ==
    (AllDone(pending) /\ resp.status = "ok") =>
        /\ resp.op = "names" => registeredFilenames = resp.result
        /\ resp.op = "nb" => numberOfDocuments = resp.result

IsPrefix(s, t) == Len(s) <= Len(t) /\ \A i \in 1..Len(s) : s[i] = t[i]

\* C18: no dropdown list ever has two filename options with the same value;
\* a refresh only appends to a list, and what it appends are registered
\* filenames that were not yet the value of an option after the placeholder.
C18_NoDuplicateOptions ==
    /\ [](\A k \in 1..Len(listIds) :
             \A i \in 2..Len(options[listIds[k]]),
                j \in 2..Len(options[listIds[k]]) :
                 options[listIds[k]][i] = options[listIds[k]][j] => i = j)
    /\ [][(resp'.op \in {"upload", "load"} /\ resp'.status = "ok") =>
             \A k \in 1..Len(listIds) :
                 LET old == IF resp'.op = "load" THEN <<"">>
                            ELSE options[listIds[k]]
                     new == options'[listIds[k]]
                 IN  /\ IsPrefix(old, new)
                     /\ \A j \in (Len(old) + 1)..Len(new) :
                           /\ new[j] \in Range(registeredFilenames')
                           /\ new[j] \notin Range(Tail(old))]_vars

\* "a" was deleted and uploaded again: the refresh appended it to the list it
\* had been removed from and not to a list that still had it
C18_Witness ==
    /\ resp.op = "upload"
    /\ resp.status = "ok"
    /\ resp.filename = "a"
    /\ options["filenameLists"] = <<"", "b", "a">>
    /\ options["filenameSVG"] = <<"", "a", "b">>
    /\ registeredFilenames = <<"b", "a">>

-----------------------------------------------------------------------------
(* The query forms with their result tables *)

\* the end of a query handler: the table is filled when the response is ok
\* and left alone when the handler returned early or the request failed
shown(tableId, columns) ==
    tables' = IF resp'.status = "ok"
              THEN [tables EXCEPT ![tableId] = fillTable(resp'.result, columns)]
              ELSE tables

FormStores ==
    {s \in MeanStores \cup WindowStores :
        /\ Len(s) = 2
        /\ \A i \in 1..Len(s) :
              /\ Has(s[i], "human_score") => s[i].human_score = 50
              /\ Has(s[i], "sample_level_system_score") =>
                    s[i].sample_level_system_score = ToDouble(50)
              /\ Has(s[i], "sample_level_confidences") =>
                    s[i].sample_level_confidences \in
                        {[score |-> <<50>>, resolution |-> 500],
                         [score |-> <<10, 90, 50>>, resolution |-> 500]}}

FormInit == QueryInit /\ file_infos \in FormStores

MeanForm ==
    /\ UNCHANGED pending
    /\ \E human \in ScoreVals \X ScoreVals, sample \in ScoreVals \X ScoreVals :
           selectMeanFormSubmit(human[1], human[2], sample[1], sample[2])
    /\ shown("tabMeanThreshold", <<"filename", "human_score", "system_score">>)

SampleForm ==
    /\ UNCHANGED pending
    /\ \E frame \in ScoreVals \X ScoreVals,
          f \in Range(options["filenameSample"]) :
           selectSampleLevelFormSubmit(frame[1], frame[2], f)
    /\ shown("tabSampleThreshold", <<"confidence", "start", "end">>)

TurnForm ==
    /\ UNCHANGED pending
    /\ \E turn \in ScoreVals \X ScoreVals,
          f \in Range(options["filenameTurn"]) :
           selectTurnLevelFormSubmit(turn[1], turn[2], f)
    /\ shown("tabTurnThreshold",
             <<"start", "end", "speaker", "speaker_confidence">>)

FormNext ==
    \/ MeanForm
    \/ SampleForm
    \/ TurnForm

FormSpec == FormInit /\ [][FormNext]_vars

\* C14: a query handler sends its request only when the lower bound is
\* strictly below the upper bound for every pair of bounds of the query, and
\* a handler that returns without sending leaves every result table as it was.
C14_BoundsChecked ==
    [][resp'.op \in {"mean", "sample", "turn"} =>
         IF resp'.status = "not_sent"
         THEN tables' = tables
         ELSE /\ resp'.args[1] < resp'.args[2]
              /\ resp'.op = "mean" => resp'.args[3] < resp'.args[4]]_vars

\* the sample-level handler just returned without sending while the three
\* tables show the rows of earlier queries
C14_Witness ==
    /\ resp.op = "sample"
    /\ resp.status = "not_sent"
    /\ tables["tabSampleThreshold"] # <<>>
    /\ tables["tabMeanThreshold"] # <<>>
    /\ tables["tabTurnThreshold"] # <<>>

-----------------------------------------------------------------------------
(* Properties of the range queries, under QuerySpec *)

Sent(op) == resp.op = op /\ resp.status # "not_sent"

Documents == Range(file_infos)

Target == file_infos[FindOne(file_infos, resp.filename)]

StrictlyIncreasing(g) ==
    \A j \in DOMAIN g, k \in DOMAIN g : j < k => g[j] < g[k]

\* the records inside both intervals of the last mean-score query
InBothIntervals ==
    {d \in Documents :
        /\ Has(d, "human_score")
        /\ Has(d, "sample_level_system_score")
        /\ d.human_score \in resp.args[1]..resp.args[2]
        /\ ToDouble(resp.args[3]) <= d.sample_level_system_score
        /\ d.sample_level_system_score <= ToDouble(resp.args[4])}

\* C1: the mean-score query with bounds [h0,h1] x [s0,s1] returns exactly the
\* records whose human_score is in [h0,h1] and whose sample_level_system_score
\* is in [s0,s1], each once, and never a record without human_score.
C1_MeanQueryExact ==
    Sent("mean") =>
        /\ resp.status = "ok"
        /\ Range(resp.result) =
              {[filename |-> d.filename, human_score |-> d.human_score,
                sample_level_system_score |-> d.sample_level_system_score] :
                 d \in InBothIntervals}
        /\ Len(resp.result) = Cardinality(InBothIntervals)
        /\ \A d \in Documents :
              ~Has(d, "human_score") =>
                  \A k \in 1..Len(resp.result) :
                      resp.result[k].filename # d.filename

\* a query returned a record sitting on the lower human bound and on the upper
\* sample bound, and left out a record that has no human_score
C1_Witness ==
    /\ Sent("mean")
    /\ \E k \in 1..Len(resp.result) :
          /\ resp.result[k].human_score = resp.args[1]
          /\ resp.result[k].sample_level_system_score = ToDouble(resp.args[4])
    /\ \E d \in Documents :
          ~Has(d, "human_score") /\ Has(d, "sample_level_system_score")

\* C2: the sample-level window query returns one entry per index i of the
\* scores with scoreMin <= scores[i] <= scoreMax, in increasing order of i,
\* with confidence scores[i], start i * resolution and end (i+1) * resolution,
\* i counted from 0 in the original sequence.
C2_SampleWindowExact ==
    (Sent("sample") /\ Exists(resp.filename)
       /\ Has(Target, "sample_level_confidences")) =>
        LET scores == Target.sample_level_confidences.score
            resolution == Target.sample_level_confidences.resolution
            kept == {i \in 0..(Len(scores) - 1) :
                        scores[i + 1] \in resp.args[1]..resp.args[2]}
        IN  /\ resp.status = "ok"
            /\ Len(resp.result) = Cardinality(kept)
            /\ \E g \in [1..Len(resp.result) -> kept] :
                  /\ StrictlyIncreasing(g)
                  /\ \A k \in 1..Len(resp.result) :
                        resp.result[k] =
                            [confidence |-> scores[g[k] + 1],
                             start |-> g[k] * resolution,
                             end |-> (g[k] + 1) * resolution]

\* resolution 0.5 and scores [10, 90, 50]: the window [50, 90] gives
\* (90, 0.5, 1.0) then (50, 1.0, 1.5)
C2_Witness ==
    /\ Sent("sample")
    /\ Exists(resp.filename)
    /\ Has(Target, "sample_level_confidences")
    /\ Target.sample_level_confidences = [score |-> <<10, 90, 50>>,
                                          resolution |-> 500]
    /\ resp.args = <<50, 90>>
    /\ resp.result = <<[confidence |-> 90, start |-> 500, end |-> 1000],
                       [confidence |-> 50, start |-> 1000, end |-> 1500]>>

\* C3: the turn-level window query returns the segments whose confidence
\* sub-score is in [scoreMin, scoreMax], bounds included, as a subsequence of
\* the stored segments: original order, each retained segment once.
C3_TurnWindowSubsequence ==
    (Sent("turn") /\ Exists(resp.filename)
       /\ Has(Target, "diarization_result")) =>
        LET segments == Target.diarization_result
            kept == {i \in 1..Len(segments) :
                        segments[i].confidence[segments[i].speaker]
                            \in resp.args[1]..resp.args[2]}
        IN  /\ resp.status = "ok"
            /\ Len(resp.result) = Cardinality(kept)
            /\ \E g \in [1..Len(resp.result) -> kept] :
                  /\ StrictlyIncreasing(g)
                  /\ \A k \in 1..Len(resp.result) :
                        resp.result[k] =
                            [start |-> segments[g[k]].start,
                             end |-> segments[g[k]].end,
                             speaker |-> segments[g[k]].speaker,
                             speaker_confidence |->
                                segments[g[k]].confidence[segments[g[k]].speaker]]

\* of three segments the middle one is outside the window; the two retained
\* ones sit on the lower and on the upper bound and come back in stored order
C3_Witness ==
    /\ Sent("turn")
    /\ Exists(resp.filename)
    /\ Has(Target, "diarization_result")
    /\ Len(Target.diarization_result) = 3
    /\ resp.args = <<50, 90>>
    /\ Len(resp.result) = 2
    /\ resp.result[1].speaker_confidence = 90
    /\ resp.result[1].start = Target.diarization_result[1].start
    /\ resp.result[2].speaker_confidence = 50
    /\ resp.result[2].start = Target.diarization_result[3].start

\* C8: a range query whose target exists (the mean-score query: over any
\* store) never ends in an error, and its result is the empty sequence when
\* nothing matches: no sample-level confidences or no segments yet, no value
\* inside the bounds, or min > max.
C8_NoErrorOnEmptyResult ==
    /\ Sent("mean") =>
          /\ resp.status = "ok"
          /\ (InBothIntervals = {} \/ resp.args[1] > resp.args[2]
                \/ resp.args[3] > resp.args[4]) => resp.result = <<>>
    /\ (Sent("sample") /\ Exists(resp.filename)) =>
          /\ resp.status = "ok"
          /\ ( \/ ~Has(Target, "sample_level_confidences")
               \/ resp.args[1] > resp.args[2]
               \/ \A i \in 1..Len(Target.sample_level_confidences.score) :
                     Target.sample_level_confidences.score[i]
                         \notin resp.args[1]..resp.args[2] )
             => resp.result = <<>>
    /\ (Sent("turn") /\ Exists(resp.filename)) =>
          /\ resp.status = "ok"
          /\ ( \/ ~Has(Target, "diarization_result")
               \/ resp.args[1] > resp.args[2]
               \/ \A i \in 1..Len(Target.diarization_result) :
                     SpeakerConfidence(Target.diarization_result[i])
                         \notin resp.args[1]..resp.args[2] )
             => resp.result = <<>>

\* a sample-level window query of a record that has no sample-level
\* confidences yet answered with the empty sequence
C8_Witness ==
    /\ Sent("sample")
    /\ Exists(resp.filename)
    /\ ~Has(Target, "sample_level_confidences")
    /\ resp.status = "ok"
    /\ resp.result = <<>>

-----------------------------------------------------------------------------
(* Properties of the record lifecycle, under Spec and CreateSpec *)

InAnyList(filename) ==
    \E k \in 1..Len(listIds) : filename \in Range(options[listIds[k]])

\* the widest mean-score query, whose result holds the result of every other
WidestMeanQuery ==
    MeanScan(file_infos, [human_score_min |-> 0, human_score_max |-> 100,
                          sample_score_min |-> 0, sample_score_max |-> 100])

ReturnedByNoQuery(filename) ==
    /\ \A k \in 1..Len(WidestMeanQuery) :
          WidestMeanQuery[k].filename # filename
    /\ \A lo \in ScoreVals, hi \in ScoreVals :
          /\ get_sample_level_confidences_by_filename(
                [min_score |-> lo, max_score |-> hi, filename |-> filename])
                .status = "NotFound"
          /\ get_turn_level_confidences_by_filename(
                [min_score |-> lo, max_score |-> hi, filename |-> filename])
                .status = "NotFound"

\* C4: once the deletion handler has finished a successful delete of f, no
\* range query returns f and none of the seven dropdown lists holds an option
\* whose value is f.
C4_DeletedEverywhere ==
    (resp.op = "delete" /\ resp.status = "ok") =>
        /\ ReturnedByNoQuery(resp.filename)
        /\ ~InAnyList(resp.filename)

\* C5: while a record named f exists every further creation named f is
\* rejected with DuplicateKey and changes nothing in the store, and no two
\* records ever share a filename.
C5_UniqueFilename ==
    /\ [](\A i \in 1..Len(file_infos), j \in 1..Len(file_infos) :
             file_infos[i].filename = file_infos[j].filename => i = j)
    /\ [][(/\ resp'.op = "upload"
           /\ resp'.status # "not_sent"
           /\ FindOne(file_infos, resp'.filename) # 0)
          => /\ resp'.status = "DuplicateKey"
             /\ file_infos' = file_infos
             /\ audio_storage' = audio_storage]_vars

\* a creation was just rejected with DuplicateKey while two records, one of
\* them already scored, are stored
C5_Witness ==
    /\ resp.op = "upload"
    /\ resp.status = "DuplicateKey"
    /\ Exists(resp.filename)
    /\ Len(file_infos) = 2
    /\ \E d \in Documents : Has(d, "human_score")

\* C6: with the other fields valid and the filename unused, a creation
\* succeeds when 1 <= nb_speakers <= 100 and otherwise fails with
\* ValidationError and stores nothing.
C6_SpeakerCountRange ==
    [][(/\ resp'.op = "upload"
        /\ resp'.status # "not_sent"
        /\ resp'.args[2] = "PyAnnote"
        /\ FindOne(file_infos, resp'.filename) = 0)
       => IF IntOf(resp'.args[1]) \in 1..100
          THEN /\ resp'.status = "ok"
               /\ Len(file_infos') = Len(file_infos) + 1
               /\ FindOne(file_infos', resp'.filename) # 0
               /\ file_infos'[FindOne(file_infos', resp'.filename)].nb_speakers
                     = IntOf(resp'.args[1])
          ELSE /\ resp'.status = "ValidationError"
               /\ file_infos' = file_infos
               /\ audio_storage' = audio_storage]_vars

\* a record created with 100 speakers next to one created with 1 speaker
C6_Witness ==
    /\ resp.op = "upload"
    /\ resp.status = "ok"
    /\ resp.args[1] = "100"
    /\ \E d \in Documents : d.filename = resp.filename /\ d.nb_speakers = 100
    /\ \E d \in Documents : d.nb_speakers = 1

\* C7: attaching a diarization result, or a sample-level or turn-level window
\* query, against a filename that has no record fails with NotFound and
\* leaves the store as it was.
C7_NotFound ==
    [][(/\ resp'.op \in {"onResult", "sample", "turn"}
        /\ resp'.status # "not_sent"
        /\ FindOne(file_infos, resp'.filename) = 0)
       => /\ resp'.status = "NotFound"
          /\ file_infos' = file_infos
          /\ audio_storage' = audio_storage]_vars

\* the engine delivered the result of a job whose record was deleted meanwhile
C7_Witness ==
    /\ resp.op = "onResult"
    /\ resp.status = "NotFound"
    /\ ~Exists(resp.filename)
    /\ Len(file_infos) = 1

\* C16: no two records stored at the same time carry the same file_id.
C16_UniqueFileId ==
    \A i \in 1..Len(file_infos), j \in 1..Len(file_infos) :
        (/\ Has(file_infos[i], "file_id")
         /\ Has(file_infos[j], "file_id")
         /\ file_infos[i].file_id = file_infos[j].file_id) => i = j

Record(filename) == file_infos[FindOne(file_infos, filename)]

\* Created 1, AwaitingDiarization 2, Diarized 3, HumanScored 4
Rank(doc) ==
    IF Has(doc, "human_score") THEN 4
    ELSE IF Has(doc, "diarization_result") /\ jobs[doc.filename] = 0 THEN 3
    ELSE IF Has(doc, "job_id") THEN 2
    ELSE 1

\* C9: a record moves along Created, AwaitingDiarization, Diarized,
\* HumanScored, Deleted and never backwards, its diarization result is
\* attached at most once, and Deleted is terminal: the record and its audio
\* bytes are gone and only a new creation uses the filename again.
C9_Lifecycle ==
    [][\A f \in Filenames :
         /\ (FindOne(file_infos, f) # 0 /\ FindOne(file_infos', f) # 0) =>
               Rank(Record(f))' >= Rank(Record(f))
         /\ (resp'.op = "onResult" /\ resp'.status = "ok"
               /\ resp'.filename = f) =>
               ~Has(Record(f), "diarization_result")
         /\ (FindOne(file_infos, f) = 0 /\ FindOne(file_infos', f) # 0) =>
               resp'.op = "upload"
         /\ (FindOne(file_infos, f) # 0 /\ FindOne(file_infos', f) = 0) =>
               FindOne(audio_storage', f) = 0]_vars

====
